---- MODULE Spec2Model ----
(***************************************************************************)
(* Task-tracking store: the SQLite tables status / users / tasks, the      *)
(* provisioning script seed.py and the command line tool manage_alt.py.    *)
(*                                                                         *)
(* A table is a sequence of rows; the index of a row is its integer        *)
(* surrogate key (rows are never deleted, so keys are 1..Len).             *)
(* Timestamps are readings of the store clock `now` (one unit = one        *)
(* clock tick of CURRENT_TIMESTAMP); several invocations may fall into     *)
(* the same tick.                                                          *)
(***************************************************************************)
EXTENDS Integers, Sequences, FiniteSets, TLC

\* ---- bounds of the model ----
MaxUsers     == 2   \* user rows the store may hold (full tool model)
MaxTasks     == 2   \* task rows the store may hold (full tool model)
MaxSeedUsers == 3   \* user rows the store may hold (provisioning-only model)
MaxSeedTasks == 4   \* task rows the store may hold (provisioning-only model)
MaxSeedRows  == 5   \* user rows + task rows (provisioning-only model)
MaxClock     == 1   \* last clock reading
MaxLimit     == 2   \* largest --limit value tried

\* ---- input domains ----
Titles       == {"T"}
Descriptions == {"null", "empty", "text"}       \* None, "", paragraph
Fractions    == {65, 70, 75}                    \* random.uniform(0.65, 0.75), in percent
NoStatus     == "None"                          \* --status omitted
StatusArgs   == {NoStatus, "new", "in progress", "completed", "bogus"}
Limits       == (0 - 1)..MaxLimit

\* ---- seed.py ----
DEFAULT_STATUSES == <<"new", "in progress", "completed">>

VARIABLES status, users, tasks, now, last
vars == <<status, users, tasks, now, last>>

Range(s) == {s[i] : i \in DOMAIN s}

Min(a, b) == IF a < b THEN a ELSE b
Max(a, b) == IF a > b THEN a ELSE b

\* what the most recent invocation was given and what it answered
NoOp == [op |-> "none", err |-> "", id |-> 0, defaulted |-> FALSE, limited |-> FALSE,
         limit |-> 0, out |-> <<>>, S |-> {}, f |-> 0, nu |-> 0, nt |-> 0,
         base |-> 0, nusers |-> 0, inserted |-> 0, fresh |-> FALSE]

\* INSERT OR IGNORE INTO status(name): names already present are skipped
RECURSIVE InsertOrIgnore(_, _)
InsertOrIgnore(st, names) ==
    IF names = <<>> THEN st
    ELSE InsertOrIgnore(IF Head(names) \in Range(st) THEN st ELSE Append(st, Head(names)),
                        Tail(names))

seed_status(st) == InsertOrIgnore(st, DEFAULT_STATUSES)

\* schema: users.email is UNIQUE
EmailTaken(us, email) == \E i \in DOMAIN us : us[i].email = email

\* schema: created_at and updated_at default to the current time
CurrentTimestamp == now

\* executemany INSERT INTO users: rows go in one by one; a row whose email is
\* already present violates the UNIQUE constraint and stops the statement
RECURSIVE seed_users(_, _)
seed_users(us, rows) ==
    IF rows = <<>> THEN [ok |-> TRUE, users |-> us]
    ELSE IF EmailTaken(us, Head(rows))
         THEN [ok |-> FALSE, users |-> us]
         ELSE seed_users(Append(us, [email |-> Head(rows)]), Tail(rows))

get_ids(table) == [i \in 1..Len(table) |-> i]

\* variant: the product rounded to the nearest integer instead of truncated
SampleSize_Rounded(n, f) == Max(1, (n * f + 50) \div 100)

\* k = max(1, int(len(user_ids) * f))
SampleSize(n, f) == Max(1, (n * f) \div 100)

\* variant: owners drawn from all users instead of the sampled subset
OwnerPool_AllUsers(S, user_ids) == user_ids

\* the population random.choice draws a task's owner from
OwnerPool(S, user_ids) == S

\* variant: the cycle starts one position late
RoundRobin_Shifted(status_ids, i) == status_ids[((i + 1) % Len(status_ids)) + 1]

\* next(rr) for the i-th generated task, i counted from 0
RoundRobin(status_ids, i) == status_ids[(i % Len(status_ids)) + 1]

\* the rows seed_tasks builds, given the random draws
TaskRows(n, status_ids, owners, descs) ==
    [j \in 1..n |-> [title |-> CHOOSE t \in Titles : TRUE, description |-> descs[j],
                     status_id |-> RoundRobin(status_ids, j - 1),
                     user_id |-> owners[j],
                     created_at |-> CurrentTimestamp, updated_at |-> CurrentTimestamp]]

\* variant: the connection's rows are kept even when the run raised
Persist_NoRollback(ok, before, after) == after

\* what the store holds once `with sqlite3.connect(db) as conn:` is left:
\* the connection's rows on a normal exit, the rows from before on an exception
Persist(ok, before, after) == IF ok THEN after ELSE before

Store == [status |-> status, users |-> users, tasks |-> tasks]

\* fake.unique.email(): n pairwise different addresses
UniqueEmails(n, emails) ==
    {s \in [1..n -> emails] : \A i, j \in 1..n : i # j => s[i] # s[j]}

\* seed.py main(): one provisioning run with --users nu --tasks nt
Main(ucap, tcap, rcap) ==
    \E nu \in 0..ucap, nt \in 0..tcap :
      /\ Len(users) + nu <= ucap
      /\ Len(tasks) + nt <= tcap
      /\ Len(users) + nu + Len(tasks) + nt <= rcap
      /\ \E rows \in UniqueEmails(nu, 1..ucap) :
           LET st1   == seed_status(status)
               ru    == seed_users(users, rows)
               uids  == get_ids(ru.users)
               sids  == get_ids(st1)
               conn1 == [status |-> st1, users |-> ru.users, tasks |-> tasks]
               rec   == [NoOp EXCEPT !.op = "seed", !.base = Len(tasks),
                                     !.fresh = (status = <<>> /\ users = <<>> /\ tasks = <<>>)]
               Finish(ok, conn, r) ==
                   LET p == Persist(ok, Store, conn)
                   IN  /\ status' = p.status
                       /\ users'  = p.users
                       /\ tasks'  = p.tasks
                       /\ last'   = r
                       /\ now'    = now
           IN  IF ~ru.ok
               THEN Finish(FALSE, conn1, [rec EXCEPT !.err = "IntegrityError",
                                                     !.inserted = Len(ru.users) - Len(users)])
               ELSE IF uids = <<>> \/ sids = <<>>
               THEN Finish(FALSE, conn1, [rec EXCEPT !.err = "RuntimeError"])
               ELSE \E f \in Fractions :
                    \E S \in {X \in SUBSET Range(uids) : Cardinality(X) = SampleSize(Len(uids), f)} :
                    \E owners \in [1..nt -> OwnerPool(S, Range(uids))], descs \in [1..nt -> Descriptions] :
                      Finish(TRUE,
                             [conn1 EXCEPT !.tasks = tasks \o TaskRows(nt, sids, owners, descs)],
                             [rec EXCEPT !.S = S, !.f = f, !.nu = nu, !.nt = nt,
                                         !.nusers = Len(uids)])

\* ---- manage_alt.py ----

\* variant: an unknown name yields a made-up id instead of "no row"
status_id_by_name_Fallback(st, name) ==
    IF \E i \in DOMAIN st : st[i] = name
    THEN CHOOSE i \in DOMAIN st : st[i] = name
    ELSE Len(st) + 1

\* SELECT id FROM status WHERE name = ?  (0 stands for "no row")
status_id_by_name(st, name) ==
    IF \E i \in DOMAIN st : st[i] = name
    THEN CHOOSE i \in DOMAIN st : st[i] = name
    ELSE 0

\* variant: the user check never fails
ensure_user_exists_Skipped(us, uid) == TRUE

ensure_user_exists(us, uid) == uid \in DOMAIN us

ensure_task_exists(ts, task_id) == task_id \in DOMAIN ts

\* variant: a different default status
StatusOrDefault_InProgress(status_name) ==
    IF status_name = NoStatus THEN "in progress" ELSE status_name

\* the status name add-task looks up
StatusOrDefault(status_name) == IF status_name = NoStatus THEN "new" ELSE status_name

\* INSERT INTO tasks(title, description, status_id, user_id)
InsertTask(ts, title, desc, sid, uid) ==
    Append(ts, [title |-> title, description |-> desc, status_id |-> sid,
                user_id |-> uid, created_at |-> CurrentTimestamp, updated_at |-> CurrentTimestamp])

\* variant: the UPDATE without its WHERE clause
UpdateStatusRow_NoWhere(ts, sid, task_id) ==
    [i \in DOMAIN ts |-> [ts[i] EXCEPT !.status_id = sid]]

\* UPDATE tasks SET status_id = ? WHERE id = ?
UpdateStatusRow(ts, sid, task_id) ==
    [i \in DOMAIN ts |-> IF i = task_id THEN [ts[i] EXCEPT !.status_id = sid] ELSE ts[i]]

cmd_add_task ==
    \E uid \in 1..(MaxUsers + 1), title \in Titles, desc \in Descriptions, status_name \in StatusArgs :
      LET rec == [NoOp EXCEPT !.op = "add-task", !.id = uid,
                              !.defaulted = (status_name = NoStatus), !.base = Len(tasks)]
          sid == status_id_by_name(status, StatusOrDefault(status_name))
      IN  /\ Len(tasks) < MaxTasks
          /\ IF ~ensure_user_exists(users, uid)
             THEN /\ last' = [rec EXCEPT !.err = "UserNotFound"]
                  /\ UNCHANGED tasks
             ELSE IF sid = 0
             THEN /\ last' = [rec EXCEPT !.err = "StatusNotFound"]
                  /\ UNCHANGED tasks
             ELSE /\ tasks' = InsertTask(tasks, title, desc, sid, uid)
                  /\ last' = rec
          /\ UNCHANGED <<status, users, now>>

cmd_update_status ==
    \E task_id \in 1..(MaxTasks + 1), status_name \in StatusArgs \ {NoStatus} :
      LET rec == [NoOp EXCEPT !.op = "update-status", !.id = task_id, !.base = Len(tasks)]
          sid == status_id_by_name(status, status_name)
      IN  /\ IF ~ensure_task_exists(tasks, task_id)
             THEN /\ last' = [rec EXCEPT !.err = "TaskNotFound"]
                  /\ UNCHANGED tasks
             ELSE IF sid = 0
             THEN /\ last' = [rec EXCEPT !.err = "StatusNotFound"]
                  /\ UNCHANGED tasks
             ELSE /\ tasks' = UpdateStatusRow(tasks, sid, task_id)
                  /\ last' = rec
          /\ UNCHANGED <<status, users, now>>

\* t JOIN status s JOIN users u WHERE s.name = 'in progress'
InProgress(st, us, ts) ==
    {i \in DOMAIN ts : /\ ts[i].status_id \in DOMAIN st
                       /\ st[ts[i].status_id] = "in progress"
                       /\ ts[i].user_id \in DOMAIN us}

\* variant: ties broken by ascending id
Before_TiesAscending(ts, a, b) ==
    \/ ts[a].updated_at > ts[b].updated_at
    \/ ts[a].updated_at = ts[b].updated_at /\ a < b

\* row a comes before row b under ORDER BY t.updated_at DESC, t.id DESC
Before(ts, a, b) ==
    \/ ts[a].updated_at > ts[b].updated_at
    \/ ts[a].updated_at = ts[b].updated_at /\ a > b

RECURSIVE OrderBy(_, _)
OrderBy(ts, ids) ==
    IF ids = {} THEN <<>>
    ELSE LET first == CHOOSE a \in ids : \A b \in ids \ {a} : Before(ts, a, b)
         IN  <<first>> \o OrderBy(ts, ids \ {first})

\* `if limit and limit > 0: sql += LIMIT`
ApplyLimit(rows, limited, limit) ==
    IF limited /\ limit # 0 /\ limit > 0
    THEN SubSeq(rows, 1, Min(limit, Len(rows)))
    ELSE rows

list_inprogress(st, us, ts, limited, limit) ==
    ApplyLimit(OrderBy(ts, InProgress(st, us, ts)), limited, limit)

cmd_list_inprogress ==
    \E limited \in BOOLEAN, limit \in Limits :
      /\ limited \/ limit = 0
      /\ last' = [NoOp EXCEPT !.op = "list-inprogress", !.limited = limited, !.limit = limit,
                              !.out = list_inprogress(status, users, tasks, limited, limit)]
      /\ UNCHANGED <<status, users, tasks, now>>

\* users u WHERE NOT EXISTS (SELECT 1 FROM tasks t WHERE t.user_id = u.id)
users_without_tasks(us, ts) ==
    {u \in DOMAIN us : ~\E i \in DOMAIN ts : ts[i].user_id = u}

cmd_users_without_tasks ==
    /\ last' = [NoOp EXCEPT !.op = "users-without-tasks",
                            !.S = users_without_tasks(users, tasks)]
    /\ UNCHANGED <<status, users, tasks, now>>

\* the store clock moves on between invocations
Tick ==
    /\ now < MaxClock
    /\ now' = now + 1
    /\ UNCHANGED <<status, users, tasks, last>>

Init ==
    /\ status = <<>>
    /\ users = <<>>
    /\ tasks = <<>>
    /\ now = 0
    /\ last = NoOp

seed_main == Main(MaxUsers, MaxTasks, MaxUsers + MaxTasks)

Next ==
    \/ Tick
    \/ seed_main
    \/ cmd_add_task
    \/ cmd_update_status
    \/ cmd_list_inprogress
    \/ cmd_users_without_tasks

Spec == Init /\ [][Next]_vars

\* provisioning runs only, with room for the status cycle to wrap
seed_main_only == Main(MaxSeedUsers, MaxSeedTasks, MaxSeedRows)

NextSeed == seed_main_only

SeedSpec == Init /\ [][NextSeed]_vars


\* ---- properties ----

StatusName(i) == status[tasks[i].status_id]

\* a step that is a successful update-status invocation
UpdateStep == last'.op = "update-status" /\ last'.err = "" /\ now' = now

\* a step that is an add-task invocation
AddStep == last'.op = "add-task" /\ now' = now

\* a step that is a provisioning run
SeedStep == last'.op = "seed" /\ now' = now

\* C1: in every reachable state each task row's status_id is the id of a status
\* row and its user_id is the id of a user row
C1_ReferentialIntegrity ==
    \A i \in DOMAIN tasks :
        /\ tasks[i].status_id \in DOMAIN status
        /\ tasks[i].user_id \in DOMAIN users

C1_Witness ==
    /\ last.op = "update-status"
    /\ last.err = ""
    /\ Len(tasks) = 2
    /\ tasks[1].user_id # tasks[2].user_id
    /\ tasks[1].status_id # tasks[2].status_id

\* C2: a successful update-status leaves the task with a strictly greater
\* updated_at and the same created_at
C2_UpdatedAtAdvances ==
    [][UpdateStep =>
         /\ tasks'[last'.id].updated_at > tasks[last'.id].updated_at
         /\ tasks'[last'.id].created_at = tasks[last'.id].created_at]_vars

\* C3: add-task with a user_id that matches no user row fails with the
\* user-not-found error and leaves the task rows as they were
C3_UnknownUserRejected ==
    [][(AddStep /\ last'.id \notin DOMAIN users) =>
         /\ last'.err = "UserNotFound"
         /\ tasks' = tasks]_vars

C3_Witness ==
    /\ last.op = "add-task"
    /\ last.err = "UserNotFound"
    /\ last.id \notin DOMAIN users
    /\ users # <<>>
    /\ tasks # <<>>

FreshSeed == last.op = "seed" /\ last.err = "" /\ last.fresh /\ last.nu >= 1

\* C4 as stated: after seeding a fresh store with N_u >= 1 users the users
\* without tasks are exactly the users outside the sampled subset S
C4_ExactlyComplement ==
    FreshSeed => users_without_tasks(users, tasks) = DOMAIN users \ last.S

\* C4 amended: after seeding a fresh store with N_u >= 1 users every user
\* outside S has no task (users-without-tasks returns all of them) and every
\* user that has a task is in S
C4_ComplementHasNoTasks ==
    FreshSeed =>
        /\ (DOMAIN users \ last.S) \subseteq users_without_tasks(users, tasks)
        /\ \A i \in DOMAIN tasks : tasks[i].user_id \in last.S

C4_Witness ==
    /\ FreshSeed
    /\ last.nt >= 1
    /\ DOMAIN users \ last.S # {}
    /\ last.S \cap users_without_tasks(users, tasks) # {}

Matching == {i \in DOMAIN tasks : StatusName(i) = "in progress"}

\* C5: list-inprogress returns only 'in progress' tasks, each at most once,
\* by updated_at descending then id descending; with limit > 0 the first
\* min(limit, matching) rows of that order, otherwise all matching rows
C5_ListInProgress ==
    last.op = "list-inprogress" =>
        LET out == last.out
            rest == Matching \ Range(out)
        IN  /\ Range(out) \subseteq Matching
            /\ \A i, j \in DOMAIN out : i < j =>
                 \/ tasks[out[i]].updated_at > tasks[out[j]].updated_at
                 \/ /\ tasks[out[i]].updated_at = tasks[out[j]].updated_at
                    /\ out[i] > out[j]
            /\ \A i \in DOMAIN out, r \in rest :
                 \/ tasks[out[i]].updated_at > tasks[r].updated_at
                 \/ /\ tasks[out[i]].updated_at = tasks[r].updated_at
                    /\ out[i] > r
            /\ Len(out) = IF last.limited /\ last.limit > 0
                          THEN Min(last.limit, Cardinality(Matching))
                          ELSE Cardinality(Matching)

C5_Witness ==
    /\ last.op = "list-inprogress"
    /\ last.limited
    /\ last.limit = 1
    /\ Cardinality(Matching) = 2
    /\ tasks[1].updated_at = tasks[2].updated_at
    /\ last.out = <<2>>

\* C6: a task inserted by add-task without --status has the status named 'new'
C6_DefaultStatusNew ==
    (last.op = "add-task" /\ last.err = "" /\ last.defaulted) =>
        /\ Len(tasks) = last.base + 1
        /\ StatusName(Len(tasks)) = "new"

C6_Witness ==
    /\ last.op = "add-task"
    /\ last.err = ""
    /\ last.defaulted
    /\ Len(tasks) = 2

IsPrefix(s, t) == Len(s) <= Len(t) /\ SubSeq(t, 1, Len(s)) = s

\* C7: a provisioning run that fails leaves no row of its own in the store;
\* one that succeeds leaves all nu user rows and all nt task rows
C7_AllOrNothing ==
    [][SeedStep =>
         IF last'.err # ""
         THEN status' = status /\ users' = users /\ tasks' = tasks
         ELSE /\ IsPrefix(users, users') /\ Len(users') = Len(users) + last'.nu
              /\ IsPrefix(tasks, tasks') /\ Len(tasks') = Len(tasks) + last'.nt]_vars

C7_Witness ==
    /\ last.op = "seed"
    /\ last.err = "IntegrityError"
    /\ last.inserted >= 1

\* C8: a successful update-status changes nothing but status_id and
\* updated_at of the targeted task row
C8_UpdateFrame ==
    [][UpdateStep =>
         /\ users' = users
         /\ status' = status
         /\ DOMAIN tasks' = DOMAIN tasks
         /\ \A i \in DOMAIN tasks : i # last'.id => tasks'[i] = tasks[i]
         /\ LET old == tasks[last'.id]
                new == tasks'[last'.id]
            IN  /\ new.title = old.title
                /\ new.description = old.description
                /\ new.user_id = old.user_id
                /\ new.created_at = old.created_at]_vars

C8_Witness ==
    /\ last.op = "update-status"
    /\ last.err = ""
    /\ Len(tasks) = 2
    /\ Len(users) = 2
    /\ \E i \in DOMAIN tasks : i # last.id /\ tasks[i].status_id # tasks[last.id].status_id

SeedDone == last.op = "seed" /\ last.err = ""

\* n * f / 100 rounded to the nearest integer
Round(n, f) == (n * f + 50) \div 100

\* C9 as stated: the sampled subset has max(1, round(n * f)) users
C9_SizeRounded ==
    SeedDone => Cardinality(last.S) = Max(1, Round(last.nusers, last.f))

\* C9 amended: the sampled subset has max(1, floor(n * f)) users, n being
\* the number of user rows in the store when the tasks are generated
C9_SizeTruncated ==
    SeedDone =>
        /\ last.nusers = Len(users)
        /\ last.S \subseteq DOMAIN users
        /\ \E k \in 0..last.nusers :
             /\ 100 * k <= last.nusers * last.f
             /\ last.nusers * last.f < 100 * (k + 1)
             /\ Cardinality(last.S) = Max(1, k)

C9_Witness ==
    /\ SeedDone
    /\ last.nusers = 3
    /\ last.f = 65
    /\ Cardinality(last.S) = 1

Generated(name) ==
    {i \in (last.base + 1)..(last.base + last.nt) : StatusName(i) = name}

\* C10: the i-th task of a provisioning run (from 0) gets the status at
\* position i mod 3 of (new, in progress, completed), so the numbers of
\* generated tasks of any two statuses differ by at most one
C10_RoundRobin ==
    SeedDone =>
        /\ \A i \in 0..(last.nt - 1) :
             StatusName(last.base + i + 1) = DEFAULT_STATUSES[(i % 3) + 1]
        /\ \A a, b \in Range(DEFAULT_STATUSES) :
             Cardinality(Generated(a)) - Cardinality(Generated(b)) <= 1

C10_Witness ==
    /\ SeedDone
    /\ last.nt = 4
    /\ StatusName(last.base + 4) = "new"

====
